---- MODULE Spec2Model ----
(***************************************************************************)
(* dcs-tetrad: the frame-capture pipeline of src/lib.rs (start,            *)
(* on_frame_begin, stop and the process-wide LIB_STATE), the persistence   *)
(* worker of src/worker.rs and the dashboard thread of src/gui.rs.         *)
(*                                                                         *)
(* Times are integers in units of 1e-9 s.  A panic of a host call is       *)
(* recorded in lastCall.result; the state it leaves behind is the state    *)
(* at the point of the panic (mlua turns the panic into a Lua error, the   *)
(* host may keep calling).                                                 *)
(***************************************************************************)
EXTENDS Integers, Sequences, FiniteSets, TLC

\* ------------------------------------------------------------- bounds
MaxTicks == 2        \* on_frame_begin calls the host makes in its sessions
MaxSessions == 2     \* worker threads spawned by start

MaxFrames == 4       \* Monitor::update calls made on one Monitor
MaxIdle == 2         \* idle time without a frame, in report intervals

MaxSamples == 3      \* PerfMonitor update calls
NarrowBits == 4      \* width of the model's i32 (two's complement, scaled down)
WideBits == 8        \* width of the model's i64 (two's complement, scaled down)

\* ------------------------------------------------------------- inputs
WallSteps == {7}         \* wall-clock advance between two host calls
SimSteps == {16}         \* simulation-clock advance between two frames

\* Lua tables of host entities, as LoGetWorldObjects returns them: a record
\* has the fields the table has (the numeric fields travel with Name)
T1 == [Name |-> "F-16C", LatLongAlt |-> "table", Position |-> "table",
       UnitName |-> "Viper11", GroupName |-> "Viper1"]
T2 == [Name |-> "F-16C", LatLongAlt |-> "table", Position |-> "table"]
TB1 == [Name |-> "AIM-120C", LatLongAlt |-> "table", Position |-> "table"]
TBad == [Name |-> "F-16C", LatLongAlt |-> "table"]      \* no Position

\* table.get(field).unwrap() succeeds
Has(table, field) == field \in DOMAIN table

\* DcsWorldObject::from_lua_with_id returns (every get is unwrap()ed)
ObjectParses(table) ==
    Has(table, "LatLongAlt") /\ Has(table, "Position") /\ Has(table, "Name")

DcsWorldObject_from_lua_with_id(id, table) == [id |-> id, name |-> table.Name]

\* mutant: a missing name becomes the empty string
DcsWorldUnit_from_lua_with_id_unnamed(id, table) ==
    [object |-> DcsWorldObject_from_lua_with_id(id, table),
     unit_name |-> IF Has(table, "UnitName") THEN table.UnitName ELSE "",
     group_name |-> IF Has(table, "GroupName") THEN table.GroupName ELSE ""]

\* DcsWorldUnit::from_lua_with_id: a missing name becomes "NoName"
DcsWorldUnit_from_lua_with_id(id, table) ==
    [object |-> DcsWorldObject_from_lua_with_id(id, table),
     unit_name |-> IF Has(table, "UnitName") THEN table.UnitName ELSE "NoName",
     group_name |-> IF Has(table, "GroupName") THEN table.GroupName ELSE "NoName"]

U1 == DcsWorldUnit_from_lua_with_id(1, T1)
U2 == DcsWorldUnit_from_lua_with_id(2, T2)
B1 == DcsWorldObject_from_lua_with_id(7, TB1)

\* one (key, value) pair of the table LoGetWorldObjects returns
Pair(key, value) == [key |-> key, value |-> value]

\* the loops of get_unit_objects / get_ballistics_objects run to their end
AllParse(pairs) == \A i \in 1..Len(pairs) : ObjectParses(pairs[i].value)

get_unit_objects(pairs) ==
    [i \in 1..Len(pairs) |-> DcsWorldUnit_from_lua_with_id(pairs[i].key, pairs[i].value)]

get_ballistics_objects(pairs) ==
    [i \in 1..Len(pairs) |-> DcsWorldObject_from_lua_with_id(pairs[i].key, pairs[i].value)]

\* (units, ballistics) tables the host holds at one frame
FrameInputs ==
    { <<  <<>>, <<>>  >>,
      <<  <<Pair(1, T1), Pair(2, T2)>>, <<Pair(7, TB1)>>  >>,
      <<  <<Pair(1, T1), Pair(3, TBad)>>, <<Pair(7, TB1)>>  >> }

\* Config as the host's script leaves it when it sets nothing
DefaultConfig ==
    [enable_framerate_log |-> TRUE, enable_object_log |-> FALSE, enable_gui |-> TRUE]

\* the configurations a host starts with: the default one, and every choice of
\* sinks without the dashboard (the worker never reads enable_gui, the
\* dashboard never reads the sink switches)
Configs ==
    {DefaultConfig} \cup
    [enable_framerate_log : BOOLEAN, enable_object_log : BOOLEAN, enable_gui : {FALSE}]

Sessions == 1..MaxSessions

VARIABLES
    libState,      \* LIB_STATE: "None", "GuiStarted", "WorkerStarted"
    logInstalled,  \* the global logger was set by setup_logging
    guiHandle,     \* is_gui_shown is Some(flag)
    guiFlag,       \* the AtomicBool behind is_gui_shown
    guiTxAlive,    \* gui_tx and rx_from_gui exist (held by LibState or by stop's local)
    guiQ,          \* messages in flight to the dashboard thread
    guiPc,         \* dashboard thread: "none", "wait_start", "shown", "dead"
    isGuiEnabled,  \* FullState.is_gui_enabled
    cur,           \* which worker FullState.worker_tx / worker_join refer to (0: none)
    nSpawned,      \* worker threads spawned so far
    ws,            \* per worker thread: channel, position, Logger, files
    hostPc,        \* host thread: "idle", or "stop_join" inside stop's join
    ticks,         \* on_frame_begin calls made while a session was active
    wall,          \* wall clock, as far as the sessions read it
    startTime,     \* FullState.start_time
    simTime,       \* the host's model time
    lastCall,      \* the last host call and how it ended
    hostConfig,    \* the configuration the host script loaded; it passes it to every start
    gui            \* the Gui of the open window: its four history series, newest first

\* src/monitor.rs (a module of its own: lib.rs never constructs a Monitor)
VARIABLES
    monPc,         \* monitor thread: "none", "recv" (in entry's loop), "done"
    monQ,          \* FrameUpdate messages in flight to the monitor thread
    monTxAlive,    \* the Monitor (and its tx_to_thread) exists
    monJoin,       \* the JoinHandle: "none", "some" (in thread_join), "taken", "joined", "dropped"
    monCaller,     \* the thread that owns the Monitor: "running", "joining", "panicked"
    imp,           \* MonitorImpl
    reports,       \* what log_to_console has emitted, one entry per call
    monStart,      \* simulation time of the first frame
    monGame,       \* simulation time of the last frame sent
    monSent,       \* Monitor::update calls so far
    monIdle        \* wall time since the last frame was sent, in ms

\* src/perf_monitor.rs (a module of its own: nothing constructs a PerfMonitor)
VARIABLES
    perfMon,       \* PerfMonitor: the PerfRecords system and process
    perfN,         \* update calls made so far, per record
    perfOut,       \* what the last update call returned
    perfChecks     \* the build has overflow checks (debug) or not (release)

perfVars == <<perfMon, perfN, perfOut, perfChecks>>

monVars == <<monPc, monQ, monTxAlive, monJoin, monCaller, imp, reports,
             monStart, monGame, monSent, monIdle>>

pipeVars == <<libState, logInstalled, guiHandle, guiFlag, guiTxAlive, guiQ, guiPc, isGuiEnabled,
              cur, nSpawned, ws, hostPc, ticks, wall, startTime, simTime, lastCall, hostConfig,
              gui>>

vars == <<libState, logInstalled, guiHandle, guiFlag, guiTxAlive, guiQ, guiPc, isGuiEnabled,
          cur, nSpawned, ws, hostPc, ticks, wall, startTime, simTime, lastCall, hostConfig,
          gui, monPc, monQ, monTxAlive, monJoin, monCaller, imp, reports,
          monStart, monGame, monSent, monIdle,
          perfMon, perfN, perfOut, perfChecks>>

libVars == <<libState, logInstalled, guiHandle, isGuiEnabled, cur, nSpawned, startTime>>
guiVars == <<guiFlag, guiTxAlive, guiQ, guiPc>>
hostVars == <<hostPc, ticks, wall, simTime, lastCall, hostConfig>>

\* ------------------------------------------------------------- messages
Stop == [type |-> "Stop"]

Update(units, ballistics, game_time, real_time) ==
    [type |-> "Update", units |-> units, ballistics |-> ballistics,
     game_time |-> game_time, real_time |-> real_time]

GuiStart == [type |-> "Start"]

\* ------------------------------------------------------------- csv sinks
\* An Option<OutputWriter>: buf holds the rows still in the csv/zstd buffers,
\* file the rows that reached the file.  state: "open" (rows may be pending),
\* "flushed" (every row reached the file, the zstd frame has no epilogue),
\* "finished" (the zstd frame was ended).
NoWriter == [some |-> FALSE, buf |-> <<>>, file |-> <<>>, state |-> "none"]

create_csv_file == [some |-> TRUE, buf |-> <<>>, file |-> <<>>, state |-> "open"]

write_record(w, row) == [w EXCEPT !.buf = Append(@, row), !.state = "open"]

flush(w) == [w EXCEPT !.file = @ \o w.buf, !.buf = <<>>, !.state = "flushed"]

finish(w) == IF w.some THEN flush(w) ELSE w

\* format!("{:.8}", t): t in 1e-9 s, the result in 1e-8 s, rounded to nearest
Fmt8(t) == (t + 5) \div 10

\* mutant: the two times and the two counts change places
FrameRow_swapped(game_time, real_time, n, num_units, num_ballistics) ==
    <<n - 1, Fmt8(real_time), Fmt8(game_time), num_ballistics, num_units>>

FrameRow(game_time, real_time, n, num_units, num_ballistics) ==
    <<n - 1, Fmt8(game_time), Fmt8(real_time), num_units, num_ballistics>>

UnitRow(frame_count, t, real_time, u) ==
    <<frame_count, t, real_time, u.unit_name, u.group_name, u.object>>

ObjectRow(frame_count, t, real_time, o) ==
    <<frame_count, t, real_time, "", "", o>>

\* ------------------------------------------------------------- Logger
Min(a, b) == IF a < b THEN a ELSE b

\* Loggable::log_as_csv: the row of a unit carries its names, the row of a
\* ballistic object empty names
log_as_csv(obj, frame_count, frame_time, real_time) ==
    IF "unit_name" \in DOMAIN obj
    THEN UnitRow(frame_count, frame_time, real_time, obj)
    ELSE ObjectRow(frame_count, frame_time, real_time, obj)

\* log_dcs_objects: one row per object, in order.  k is the number of writes
\* that succeed before the first failing one (k >= Len(objects): all succeed).
log_dcs_objects(frame_count, t, real_time, w, objects, k) ==
    LET rows == [i \in 1..Min(k, Len(objects)) |->
                    log_as_csv(objects[i], frame_count, t, real_time)]
    IN  IF rows = <<>> THEN w ELSE [w EXCEPT !.buf = @ \o rows, !.state = "open"]

log_frame(w, game_time, real_time, n, num_units, num_ballistics) ==
    write_record(w, FrameRow(game_time, real_time, n, num_units, num_ballistics))

Logger_new(frame_writer, object_writer) ==
    [prev_game_time |-> 0, current_real_time |-> 0, most_recent_game_time |-> 0,
     frame_count |-> 0, frame_writer |-> frame_writer, object_writer |-> object_writer]

\* mutant: the frame row is written only for a frame that has units
Logger_log_frame_nonempty(l, t, units, ballistics) ==
    IF Len(units) = 0 THEN l
    ELSE [l EXCEPT !.frame_writer =
            log_frame(@, t, l.current_real_time, l.frame_count, Len(units), Len(ballistics))]

Logger_log_frame(l, t, units, ballistics) ==
    [l EXCEPT !.frame_writer =
        log_frame(@, t, l.current_real_time, l.frame_count, Len(units), Len(ballistics))]

\* mutant: the ballistic objects are not logged
Logger_log_objects_units_only(l, units, ballistics, k) ==
    [l EXCEPT !.object_writer =
        log_dcs_objects(l.frame_count, l.most_recent_game_time, l.current_real_time,
                        @, units, k)]

\* mutant: the ballistic objects are logged before the units
Logger_log_objects_ballistics_first(l, units, ballistics, k) ==
    LET n == l.frame_count
        t == l.most_recent_game_time
        w1 == log_dcs_objects(n, t, l.current_real_time, l.object_writer, ballistics, k)
        w2 == log_dcs_objects(n, t, l.current_real_time, w1, units, k - Len(ballistics))
    IN  [l EXCEPT !.object_writer = w2]

Logger_log_objects(l, units, ballistics, k) ==
    LET n == l.frame_count
        t == l.most_recent_game_time
        w1 == log_dcs_objects(n, t, l.current_real_time, l.object_writer, units, k)
        w2 == log_dcs_objects(n, t, l.current_real_time, w1, ballistics, k - Len(units))
    IN  [l EXCEPT !.object_writer = w2]

\* the write operations one Update asks for
NumWrites(l, units, ballistics) ==
    (IF l.frame_writer.some THEN 1 ELSE 0)
    + (IF l.object_writer.some THEN Len(units) + Len(ballistics) ELSE 0)

\* Logger::handle_update.  k: the writes that succeed before the first failing
\* one; every write is unwrap()ed, so k < NumWrites ends in a panic.
handle_update(l, units, ballistics, game_time, real_time, k) ==
    LET l1 == [l EXCEPT !.prev_game_time = l.most_recent_game_time,
                        !.most_recent_game_time = game_time,
                        !.current_real_time = real_time]
        nf == IF l1.frame_writer.some THEN 1 ELSE 0
        l2 == IF l1.frame_writer.some /\ k >= 1
              THEN Logger_log_frame(l1, game_time, units, ballistics)
              ELSE l1
    IN  IF l2.object_writer.some /\ k >= nf
        THEN Logger_log_objects(l2, units, ballistics, k - nf)
        ELSE l2

\* Logger::handle_message: TRUE when the loop is done
handle_message_done(msg) == msg.type = "Stop"

\* Logger::finish: the object writer first, then the frame writer.  k: the
\* flushes that succeed (each is unwrap()ed).
Logger_finish(l, k) ==
    LET no == IF l.object_writer.some THEN 1 ELSE 0
        l1 == IF k >= no THEN [l EXCEPT !.object_writer = finish(@)] ELSE l
    IN  IF k >= no + (IF l.frame_writer.some THEN 1 ELSE 0)
        THEN [l1 EXCEPT !.frame_writer = finish(@)]
        ELSE l1

NumFlushes(l) ==
    (IF l.object_writer.some THEN 1 ELSE 0) + (IF l.frame_writer.some THEN 1 ELSE 0)

\* The Logger is dropped while a panic unwinds: csv::Writer's Drop flushes
\* best-effort (the result is ignored), the zstd encoder is dropped unfinished.
drop_logger(l) == [l EXCEPT !.object_writer = finish(@), !.frame_writer = finish(@)]

\* ------------------------------------------------------------- worker thread
NoWorker ==
    [pc |-> "unspawned", config |-> [enable_framerate_log |-> FALSE,
                                     enable_object_log |-> FALSE, enable_gui |-> FALSE],
     q |-> <<>>, txAlive |-> FALSE, logger |-> Logger_new(NoWriter, NoWriter),
     sent |-> <<>>, handled |-> <<>>]

\* mutant: the new worker's Sender is not kept
SpawnedWorker_unheld(config, txHeld) ==
    [NoWorker EXCEPT !.pc = "spawned", !.config = config, !.txAlive = FALSE]

\* std::thread::spawn of worker::entry with a fresh channel
SpawnedWorker(config, txHeld) ==
    [NoWorker EXCEPT !.pc = "spawned", !.config = config, !.txAlive = txHeld]

\* the Receiver lives as long as entry runs
RxAlive(w) == w.pc \in {"spawned", "recv", "finish"}

Terminated(w) == w.pc \in {"done", "panicked"}

\* mutant: the channel is a stack
send_front(w, msg) == [w EXCEPT !.q = <<msg>> \o @, !.sent = Append(@, msg)]

\* mpsc Sender::send on a channel whose Receiver is alive: the message is queued
send(w, msg) == [w EXCEPT !.q = Append(@, msg), !.sent = Append(@, msg)]

\* mpsc Receiver::recv on a non-empty channel: the oldest message
recv(q) == Head(q)

\* mutant: a sink is created whatever the configuration says
open_sink_always(enabled) == create_csv_file

\* entry: if config.enable_.. { Some(create_csv_file(..)) } else { None }
open_sink(enabled) == IF enabled THEN create_csv_file ELSE NoWriter

\* entry, up to the loop: the sinks are created, each create_csv_file panics
\* on failure.  fail: the sink whose creation fails.
WorkerOpen(s, fail) ==
    /\ ws[s].pc = "spawned"
    /\ LET c == ws[s].config IN
       /\ fail = "frames" => c.enable_framerate_log
       /\ fail = "objects" => c.enable_object_log
       /\ IF fail = "frames" \/ fail = "objects"
          THEN ws' = [ws EXCEPT ![s].pc = "panicked"]
          ELSE ws' = [ws EXCEPT ![s].pc = "recv",
                                ![s].logger = Logger_new(open_sink(c.enable_framerate_log),
                                                         open_sink(c.enable_object_log))]
    /\ UNCHANGED <<libVars, guiVars, hostVars, gui, monVars, perfVars>>

\* one turn of entry's loop: rx.recv().expect(..), then handle_message
WorkerRecv(s, k) ==
    /\ ws[s].pc = "recv"
    /\ LET w == ws[s] IN
       IF w.q # <<>>
       THEN LET msg == recv(w.q)
                w1 == [w EXCEPT !.q = Tail(@), !.handled = Append(@, msg)]
            IN  IF handle_message_done(msg)
                THEN /\ k = 0
                     /\ ws' = [ws EXCEPT ![s] = [w1 EXCEPT !.pc = "finish"]]
                ELSE LET n == NumWrites(w.logger, msg.units, msg.ballistics)
                         l == handle_update(w.logger, msg.units, msg.ballistics,
                                            msg.game_time, msg.real_time, k)
                     IN  /\ k \in 0..n
                         /\ ws' = [ws EXCEPT ![s] =
                                IF k = n
                                THEN [w1 EXCEPT !.logger = l]
                                ELSE [w1 EXCEPT !.logger = drop_logger(l),
                                                !.pc = "panicked"]]
       ELSE \* blocked in recv while a Sender exists; Err once every Sender is gone
            /\ ~w.txAlive
            /\ k = 0
            /\ ws' = [ws EXCEPT ![s].pc = "panicked",
                                ![s].logger = drop_logger(@)]
    /\ UNCHANGED <<libVars, guiVars, hostVars, gui, monVars, perfVars>>

\* after the loop: logger.finish(), then the thread ends
WorkerFinish(s, k) ==
    /\ ws[s].pc = "finish"
    /\ LET n == NumFlushes(ws[s].logger)
           l == Logger_finish(ws[s].logger, k)
       IN  /\ k \in 0..n
           /\ ws' = [ws EXCEPT ![s].logger = IF k = n THEN l ELSE drop_logger(l),
                               ![s].pc = IF k = n THEN "done" ELSE "panicked"]
    /\ UNCHANGED <<libVars, guiVars, hostVars, gui, monVars, perfVars>>

\* ------------------------------------------------------------- host calls
Call(op, result, paused) == [op |-> op, result |-> result, paused |-> paused]

GuiRxAlive(pc) == pc \in {"wait_start", "shown"}

\* gui_tx.send(message).unwrap_or(()): queued when the dashboard thread holds
\* its Receiver, dropped otherwise
gui_send(q, pc, msg) == IF GuiRxAlive(pc) THEN Append(q, msg) ELSE q

\* send_gui_message
send_gui_message(q, pc, enabled, msg) == IF ~enabled THEN q ELSE gui_send(q, pc, msg)

\* start.  initOk: LibState::init's console and log file can be set up.
Start(config, initOk) ==
    /\ hostPc = "idle"
    /\ logInstalled => initOk
    /\ UNCHANGED <<hostPc, ticks, wall, simTime, hostConfig, gui, monVars, perfVars>>
    /\ IF libState = "None" /\ (logInstalled \/ ~initOk)
       THEN \* LibState::init returns Err (the logger is set once per process)
            /\ lastCall' = Call("start", "err", FALSE)
            /\ UNCHANGED <<libVars, guiVars, ws>>
       ELSE
       /\ nSpawned < MaxSessions
       /\ nSpawned' = nSpawned + 1
       /\ IF libState = "WorkerStarted"
          THEN \* init_session spawns the thread, then panics "Worker already
               \* started": LIB_STATE was taken, the old FullState and the new
               \* Sender are dropped while unwinding
               /\ ws' = [ws EXCEPT ![cur].txAlive = FALSE,
                                   ![nSpawned + 1] = SpawnedWorker(config, FALSE)]
               /\ libState' = "None"
               /\ cur' = 0
               /\ guiTxAlive' = FALSE
               /\ lastCall' = Call("start", "panic", FALSE)
               /\ UNCHANGED <<logInstalled, guiHandle, isGuiEnabled, startTime,
                              guiFlag, guiQ, guiPc>>
          ELSE LET fresh == libState = "None"
                   h == IF fresh THEN config.enable_gui ELSE guiHandle
                   p == IF fresh THEN (IF config.enable_gui THEN "wait_start" ELSE "none")
                        ELSE guiPc
                   q == IF fresh THEN <<>> ELSE guiQ
               IN  /\ logInstalled' = TRUE
                   /\ guiHandle' = h
                   /\ guiPc' = p
                   /\ guiTxAlive' = TRUE
                   /\ guiFlag' = guiFlag
                   /\ ws' = [ws EXCEPT ![nSpawned + 1] = SpawnedWorker(config, TRUE)]
                   /\ libState' = "WorkerStarted"
                   /\ cur' = nSpawned + 1
                   /\ isGuiEnabled' = config.enable_gui
                   /\ startTime' = wall
                   /\ IF config.enable_gui /\ ~h
                      THEN \* start_gui: is_gui_shown unwraps None
                           /\ guiQ' = q
                           /\ lastCall' = Call("start", "panic", FALSE)
                      ELSE /\ guiQ' = IF config.enable_gui
                                      THEN send_gui_message(q, p, config.enable_gui, GuiStart)
                                      ELSE q
                           /\ lastCall' = Call("start", "ok", FALSE)

\* mutant: the pause flag is ignored
skip_tick_never(paused) == FALSE

\* the pause test of on_frame_begin
skip_tick(paused) == paused

\* on_frame_begin.  input: the host's unit and ballistics lists; dt, dw: how
\* far the simulation clock and the wall clock moved.
OnFrameBegin(paused, input, dt, dw) ==
    /\ hostPc = "idle"
    /\ UNCHANGED <<libVars, hostPc, hostConfig, guiFlag, guiTxAlive, guiPc, gui, monVars, perfVars>>
    /\ IF libState # "WorkerStarted"
       THEN \* get_elapsed_time: get_lib_state panics
            \* (before is_paused is asked)
            /\ lastCall' = Call("on_frame_begin", "panic", FALSE)
            /\ UNCHANGED <<ws, guiQ, simTime, ticks, wall>>
       ELSE
       /\ ticks < MaxTicks
       /\ ticks' = ticks + 1
       /\ wall' = wall + dw
       /\ IF skip_tick(paused)
          THEN /\ lastCall' = Call("on_frame_begin", "ok", paused)
               /\ UNCHANGED <<ws, guiQ, simTime>>
          ELSE
            LET t == simTime + dt
                real_time == wall' - startTime
                msg == Update(get_unit_objects(input[1]), get_ballistics_objects(input[2]),
                              t, real_time)
            IN  /\ simTime' = t
                /\ IF ~(AllParse(input[2]) /\ AllParse(input[1]))
                   THEN \* get_ballistics_objects / get_unit_objects: unwrap panics
                        /\ lastCall' = Call("on_frame_begin", "panic", paused)
                        /\ UNCHANGED <<ws, guiQ>>
                   ELSE IF ~RxAlive(ws[cur])
                   THEN \* send_worker_message: expect on a closed channel
                        /\ lastCall' = Call("on_frame_begin", "panic", paused)
                        /\ UNCHANGED <<ws, guiQ>>
                   ELSE /\ ws' = [ws EXCEPT ![cur] = send(@, msg)]
                        /\ IF ~guiHandle
                           THEN \* is_gui_shown unwraps None
                                /\ lastCall' = Call("on_frame_begin", "panic", paused)
                                /\ UNCHANGED guiQ
                           ELSE /\ guiQ' = IF guiFlag
                                           THEN send_gui_message(guiQ, guiPc, isGuiEnabled, msg)
                                           ELSE guiQ
                                /\ lastCall' = Call("on_frame_begin", "ok", paused)

\* stop, up to the join: the Stop message is sent and LIB_STATE taken
StopCall ==
    /\ hostPc = "idle"
    /\ UNCHANGED <<logInstalled, guiHandle, isGuiEnabled, cur, nSpawned, startTime,
                   guiVars, ticks, wall, simTime, hostConfig, gui, monVars, perfVars>>
    /\ IF libState # "WorkerStarted" \/ ~RxAlive(ws[cur])
       THEN \* send_worker_message panics: no session, or a closed channel
            /\ lastCall' = Call("stop", "panic", FALSE)
            /\ UNCHANGED <<libState, ws, hostPc>>
       ELSE /\ ws' = [ws EXCEPT ![cur] = send(@, Stop)]
            /\ libState' = "None"
            /\ hostPc' = "stop_join"
            /\ lastCall' = Call("stop", "pending", FALSE)

\* mutant: stop does not wait for the thread
joinable_always(w) == TRUE

\* JoinHandle::join returns once the thread has ended
joinable(w) == Terminated(w)

\* mutant: stop rebuilds the library state without the dashboard channel
StopJoin_DropsGui ==
    /\ hostPc = "stop_join"
    /\ joinable(ws[cur])
    /\ hostPc' = "idle"
    /\ ws' = [ws EXCEPT ![cur].txAlive = FALSE]
    /\ cur' = 0
    /\ UNCHANGED <<logInstalled, guiHandle, isGuiEnabled, nSpawned, startTime,
                   guiFlag, guiQ, guiPc, ticks, wall, simTime, hostConfig, gui, monVars, perfVars>>
    /\ guiTxAlive' = FALSE
    /\ IF ws[cur].pc = "panicked"
       THEN libState' = "None" /\ lastCall' = Call("stop", "panic", FALSE)
       ELSE libState' = "GuiStarted" /\ lastCall' = Call("stop", "ok", FALSE)

\* stop, from the join on: join().unwrap(), then LIB_STATE = GuiStarted
StopJoin ==
    /\ hostPc = "stop_join"
    /\ joinable(ws[cur])
    /\ hostPc' = "idle"
    /\ ws' = [ws EXCEPT ![cur].txAlive = FALSE]
    /\ cur' = 0
    /\ UNCHANGED <<logInstalled, guiHandle, isGuiEnabled, nSpawned, startTime,
                   guiFlag, guiQ, guiPc, ticks, wall, simTime, hostConfig, gui, monVars, perfVars>>
    /\ IF ws[cur].pc = "panicked"
       THEN \* join is Err: unwrap panics, the taken FullState is dropped
            /\ libState' = "None"
            /\ guiTxAlive' = FALSE
            /\ lastCall' = Call("stop", "panic", FALSE)
       ELSE /\ libState' = "GuiStarted"
            /\ guiTxAlive' = guiTxAlive
            /\ lastCall' = Call("stop", "ok", FALSE)

\* ------------------------------------------------------------- dashboard thread
PLOT_NUM_PTS == 2048

\* Gui::new: four empty bounded deques
Gui_new == [num_units |-> <<>>, num_ballistics |-> <<>>,
            game_times |-> <<>>, real_times |-> <<>>]

\* BoundedVecDeque::push_front: the oldest entry goes when the deque is full
push_front(q, x) ==
    IF Len(q) >= PLOT_NUM_PTS THEN <<x>> \o SubSeq(q, 1, PLOT_NUM_PTS - 1) ELSE <<x>> \o q

\* Gui::handle_message
Gui_handle_message(g, msg) ==
    IF msg.type = "Start"
    THEN [g EXCEPT !.num_ballistics = <<>>, !.num_units = <<>>, !.game_times = <<>>]
    ELSE [g EXCEPT !.num_units = push_front(@, Len(msg.units)),
                   !.num_ballistics = push_front(@, Len(msg.ballistics)),
                   !.game_times = push_front(@, msg.game_time),
                   !.real_times = push_front(@, msg.real_time)]

\* Gui::handle_messages: try_recv until the channel is empty
RECURSIVE Gui_handle_messages(_, _)
Gui_handle_messages(g, q) ==
    IF q = <<>> THEN g ELSE Gui_handle_messages(Gui_handle_message(g, Head(q)), Tail(q))

\* make_obj_count_line reads times[idx] for every position idx of v (from 0)
make_obj_count_line_ok(v, times) == \A idx \in 0..(Len(v) - 1) : idx < Len(times)

\* make_time_line reads ref_times[idx] for idx in 1..times.len()
make_time_line_ok(ref_times, times) == \A idx \in 1..(Len(times) - 1) : idx < Len(ref_times)

\* the plots of Gui::update index in bounds
Gui_plots_ok(g) ==
    /\ make_obj_count_line_ok(g.num_units, g.game_times)
    /\ make_obj_count_line_ok(g.num_ballistics, g.game_times)
    /\ make_time_line_ok(g.game_times, g.game_times)
    /\ make_time_line_ok(g.game_times, g.real_times)

\* gui::run's loop, one turn: recv().unwrap(), a Start opens the window (do_gui
\* makes a new Gui), any other message is dropped and the loop sends
\* ThreadStarted again
GuiRecv ==
    /\ guiPc = "wait_start"
    /\ IF guiQ # <<>>
       THEN IF Head(guiQ).type = "Start"
            THEN guiFlag' = TRUE /\ guiPc' = "shown" /\ guiQ' = Tail(guiQ)
            ELSE IF guiTxAlive
            THEN guiFlag' = guiFlag /\ guiPc' = "wait_start" /\ guiQ' = Tail(guiQ)
            ELSE guiFlag' = guiFlag /\ guiPc' = "dead" /\ guiQ' = <<>>
       ELSE /\ ~guiTxAlive
            /\ guiPc' = "dead"
            /\ UNCHANGED <<guiQ, guiFlag>>
    /\ gui' = Gui_new
    /\ UNCHANGED <<libVars, guiTxAlive, ws, hostVars, monVars, perfVars>>

\* Gui::update on a repaint with messages waiting: handle_messages, then the
\* plots; an index out of bounds panics and ends the thread with the flag set
GuiHandleMessages ==
    /\ guiPc = "shown"
    /\ guiQ # <<>>
    /\ guiQ' = <<>>
    /\ LET g == Gui_handle_messages(gui, guiQ)
       IN  IF Gui_plots_ok(g)
           THEN gui' = g /\ guiPc' = guiPc
           ELSE gui' = Gui_new /\ guiPc' = "dead"
    /\ UNCHANGED <<libVars, guiFlag, guiTxAlive, ws, hostVars, monVars, perfVars>>

\* the window is closed: do_gui returns, the flag is cleared, the loop goes on
GuiClose ==
    /\ guiPc = "shown"
    /\ guiFlag' = FALSE
    /\ guiPc' = IF guiTxAlive THEN "wait_start" ELSE "dead"
    /\ guiQ' = IF guiTxAlive THEN guiQ ELSE <<>>
    /\ gui' = Gui_new
    /\ UNCHANGED <<libVars, guiTxAlive, ws, hostVars, monVars, perfVars>>

\* eframe::run_native panics: the thread dies with the flag still set
GuiCrash ==
    /\ guiPc = "shown"
    /\ guiPc' = "dead"
    /\ guiQ' = <<>>
    /\ gui' = Gui_new
    /\ UNCHANGED <<libVars, guiFlag, guiTxAlive, ws, hostVars, monVars, perfVars>>

\* ------------------------------------------------------------- rolling monitor
\* Times of the monitor are integers in ms.
ReportThreshold == 5000      \* the 5.0 of update_log
StallThreshold == 100        \* the 0.1 of log_to_console
IdleSteps == {3000}          \* wall time of one idle period

MonStarts == {0, 6000}       \* simulation time of the first frame a Monitor is given
MonSteps == {50, 2500, 5000} \* simulation-clock advance between two frames
MonCounts == { <<0, 0>>, <<2, 1>> }   \* (units, ballistics) of a frame

FrameState(num_units, num_ballistics, real_time, game_time) ==
    [num_units |-> num_units, num_ballistics |-> num_ballistics,
     real_time |-> real_time, game_time |-> game_time,
     lib_time |-> 1, sys_cpu |-> 10, sys_wall |-> 20, proc_cpu |-> 5]

Series == {"num_units", "num_ballistics", "real_times", "game_times", "lib_times",
           "sys_cpu_times", "sys_wall_times", "proc_cpu_times"}

\* FrameLog::default
FrameLog_default == [f \in Series |-> <<>>]

\* FrameLog::update
FrameLog_update(fl, state, last_game_time, last_real_time) ==
    [fl EXCEPT !.num_units = Append(@, state.num_units),
               !.num_ballistics = Append(@, state.num_ballistics),
               !.real_times = Append(@, state.real_time - last_real_time),
               !.game_times = Append(@, state.game_time - last_game_time),
               !.lib_times = Append(@, state.lib_time),
               !.sys_cpu_times = Append(@, state.sys_cpu),
               !.sys_wall_times = Append(@, state.sys_wall),
               !.proc_cpu_times = Append(@, state.proc_cpu)]

\* mutant: reset forgets the wall-time series
FrameLog_reset_partial(fl) ==
    [fl EXCEPT !.num_units = <<>>, !.num_ballistics = <<>>, !.game_times = <<>>,
               !.lib_times = <<>>, !.sys_cpu_times = <<>>,
               !.sys_wall_times = <<>>, !.proc_cpu_times = <<>>]

\* FrameLog::reset
FrameLog_reset(fl) ==
    [fl EXCEPT !.num_units = <<>>, !.num_ballistics = <<>>, !.game_times = <<>>,
               !.real_times = <<>>, !.lib_times = <<>>, !.sys_cpu_times = <<>>,
               !.sys_wall_times = <<>>, !.proc_cpu_times = <<>>]

\* FrameLog::is_empty
FrameLog_is_empty(fl) == Len(fl.game_times) = 0

SeqMin(v) == CHOOSE x \in {v[i] : i \in 1..Len(v)} : \A j \in 1..Len(v) : x <= v[j]
SeqMax(v) == CHOOSE x \in {v[i] : i \in 1..Len(v)} : \A j \in 1..Len(v) : x >= v[j]

Report(kind, lvl, n, g_min, g_max, max_units, max_ballistics) ==
    [kind |-> kind, lvl |-> lvl, n |-> n, g_min |-> g_min, g_max |-> g_max,
     max_units |-> max_units, max_ballistics |-> max_ballistics]

\* FrameLog::log_to_console: the report it writes to the log
log_to_console(fl) ==
    IF FrameLog_is_empty(fl)
    THEN Report("nodata", "Warn", 0, 0, 0, 0, 0)
    ELSE LET g_min == SeqMin(fl.game_times)
         IN  Report("frames",
                    IF g_min < StallThreshold THEN "Info" ELSE "Warn",
                    Len(fl.game_times), g_min, SeqMax(fl.game_times),
                    SeqMax(fl.num_units), SeqMax(fl.num_ballistics))

\* MonitorImpl::default
MonitorImpl_default ==
    [frame_log |-> FrameLog_default, last_game_time |-> 0, last_real_time |-> 0,
     last_logged_time |-> 0, frame_count |-> 0, last_logged_frame |-> 0]

\* the test of update_log
reaches_threshold(game_time, last_logged_time) ==
    game_time - last_logged_time >= ReportThreshold

\* MonitorImpl::update_log: the new MonitorImpl
update_log(m, state) ==
    LET fl == FrameLog_update(m.frame_log, state, m.last_game_time, m.last_real_time)
        hit == reaches_threshold(state.game_time, m.last_logged_time)
    IN  [frame_log |-> IF hit THEN FrameLog_reset(fl) ELSE fl,
         last_logged_frame |-> IF hit THEN m.frame_count ELSE m.last_logged_frame,
         last_logged_time |-> IF hit THEN state.game_time ELSE m.last_logged_time,
         last_game_time |-> state.game_time,
         last_real_time |-> state.real_time,
         frame_count |-> m.frame_count + 1]

\* MonitorImpl::update_log: what it emits
update_log_reports(m, state) ==
    IF reaches_threshold(state.game_time, m.last_logged_time)
    THEN <<log_to_console(FrameLog_update(m.frame_log, state,
                                          m.last_game_time, m.last_real_time))>>
    ELSE <<>>

\* Monitor::update: the frame is sent to the thread (the thread holds its
\* Receiver as long as the Monitor holds the Sender, so the send succeeds)
MonUpdate(counts, dt) ==
    /\ monCaller = "running"
    /\ monTxAlive
    /\ monSent < MaxFrames
    /\ LET t == IF monSent = 0 THEN monStart ELSE monGame + dt
       IN  /\ monQ' = Append(monQ, FrameState(counts[1], counts[2], t, t))
           /\ monGame' = t
    /\ monSent' = monSent + 1
    /\ monIdle' = 0
    /\ UNCHANGED <<pipeVars, perfVars, monPc, monTxAlive, monJoin, monCaller, imp, reports, monStart>>

\* one turn of MonitorImpl::entry's loop: rx.recv(), update_log; Err once
\* the Sender is dropped and the channel is empty
MonRecv ==
    /\ monPc = "recv"
    /\ IF monQ # <<>>
       THEN /\ imp' = update_log(imp, Head(monQ))
            /\ reports' = reports \o update_log_reports(imp, Head(monQ))
            /\ monQ' = Tail(monQ)
            /\ monPc' = monPc
       ELSE /\ ~monTxAlive
            /\ monPc' = "done"
            /\ UNCHANGED <<imp, reports, monQ>>
    /\ UNCHANGED <<pipeVars, perfVars, monTxAlive, monJoin, monCaller, monStart, monGame, monSent, monIdle>>

\* time passes and no frame is sent
MonIdlePass(d) ==
    /\ monSent >= 1
    /\ monIdle + d <= MaxIdle * ReportThreshold
    /\ monIdle' = monIdle + d
    /\ UNCHANGED <<pipeVars, perfVars, monPc, monQ, monTxAlive, monJoin, monCaller, imp, reports,
                   monStart, monGame, monSent>>

\* Monitor::stop: take(&mut self.thread_join).unwrap()
MonStop ==
    /\ monCaller = "running"
    /\ monTxAlive
    /\ IF monJoin = "some"
       THEN monJoin' = "taken" /\ monCaller' = monCaller
       ELSE monJoin' = monJoin /\ monCaller' = "panicked"
    /\ UNCHANGED <<pipeVars, perfVars, monPc, monQ, monTxAlive, imp, reports,
                   monStart, monGame, monSent, monIdle>>

\* the owner starts to join the handle Monitor::stop returned
MonJoinBegin ==
    /\ monCaller = "running"
    /\ monJoin = "taken"
    /\ monCaller' = "joining"
    /\ UNCHANGED <<pipeVars, perfVars, monPc, monQ, monTxAlive, monJoin, imp, reports,
                   monStart, monGame, monSent, monIdle>>

\* JoinHandle::join returns: the thread has ended
MonJoinEnd ==
    /\ monCaller = "joining"
    /\ monPc = "done"
    /\ monCaller' = "running"
    /\ monJoin' = "joined"
    /\ UNCHANGED <<pipeVars, perfVars, monPc, monQ, monTxAlive, imp, reports,
                   monStart, monGame, monSent, monIdle>>

\* the Monitor is dropped: its Sender goes, a handle still inside detaches
MonDrop ==
    /\ monCaller \in {"running", "panicked"}
    /\ monTxAlive
    /\ monTxAlive' = FALSE
    /\ monJoin' = IF monJoin = "some" THEN "dropped" ELSE monJoin
    /\ UNCHANGED <<pipeVars, perfVars, monPc, monQ, monCaller, imp, reports,
                   monStart, monGame, monSent, monIdle>>

\* no Monitor exists
MonNone ==
    /\ monPc = "none"
    /\ monQ = <<>>
    /\ monTxAlive = FALSE
    /\ monJoin = "none"
    /\ monCaller = "running"
    /\ imp = MonitorImpl_default
    /\ reports = <<>>
    /\ monStart = 0
    /\ monGame = 0
    /\ monSent = 0
    /\ monIdle = 0

\* ------------------------------------------------------------- perf monitor
\* Counters are in units of 100 ns (FILETIME).  i64 and i32 are modelled as
\* two's complement integers of WideBits and NarrowBits bits.
Pow2(n) == 2 ^ n

\* the value of x in two's complement of the given width
Wrap(bits, x) ==
    LET m == x % Pow2(bits)
    IN  IF m >= Pow2(bits - 1) THEN m - Pow2(bits) ELSE m

Fits(bits, x) == -Pow2(bits - 1) <= x /\ x < Pow2(bits - 1)

\* (a - b) as i32, a and b i64
sub_as_i32(a, b) == Wrap(NarrowBits, Wrap(WideBits, a - b))

\* PerfRecord::default
PerfRecord_default == [last_idle_time |-> 0, last_kernel_time |-> 0, last_user_time |-> 0]

\* PerfMonitor::default
PerfMonitor_default == [system |-> PerfRecord_default, process |-> PerfRecord_default]

NoOut == [status |-> "none", busy |-> 0, total |-> 0]

\* the return value of PerfRecord::update.  An i32 addition or subtraction
\* that overflows panics in a build with overflow checks and wraps in one
\* without.
PerfRecord_update_result(r, idle, kernel, user, checks) ==
    LET di == sub_as_i32(idle, r.last_idle_time)
        dk == sub_as_i32(kernel, r.last_kernel_time)
        du == sub_as_i32(user, r.last_user_time)
        total_time == Wrap(NarrowBits, dk + du)
        busy_time == Wrap(NarrowBits, total_time - di)
    IN  IF checks /\ ~(Fits(NarrowBits, dk + du) /\ Fits(NarrowBits, total_time - di))
        THEN [status |-> "panic", busy |-> 0, total |-> 0]
        ELSE [status |-> "ok", busy |-> busy_time, total |-> total_time]

\* the record PerfRecord::update leaves behind (a panic comes before the stores)
PerfRecord_update_record(r, idle, kernel, user, res) ==
    IF res.status = "panic" THEN r
    ELSE [last_idle_time |-> idle, last_kernel_time |-> kernel, last_user_time |-> user]

\* counter values the first sample of a record may show, and advances of a
\* counter between two samples.  Pow2(NarrowBits - 1) is the first value an
\* i32 cannot hold (214.7 s of CPU time in the program's units).
PerfStarts == {1, Pow2(NarrowBits - 1)}
PerfSteps == {1, Pow2(NarrowBits - 2)}

\* what a counter that showed last may show now; first: the record has
\* stored no sample yet
NextSamples(first, last) ==
    IF first THEN PerfStarts ELSE {last + d : d \in PerfSteps}

PerfUpdate(which, idle, kernel, user) ==
    /\ perfN.system + perfN.process < MaxSamples
    /\ LET r == perfMon[which]
           res == PerfRecord_update_result(r, idle, kernel, user, perfChecks)
       IN  /\ perfOut' = res
           /\ perfMon' = [perfMon EXCEPT ![which] =
                             PerfRecord_update_record(r, idle, kernel, user, res)]
           /\ perfN' = [perfN EXCEPT ![which] = @ + 1]
    /\ UNCHANGED <<pipeVars, monVars, perfChecks>>

\* PerfMonitor::update_system_time: idle, kernel and user of GetSystemTimes
update_system_time ==
    LET r == perfMon.system
        first == r = PerfRecord_default
    IN  \E idle \in NextSamples(first, r.last_idle_time),
           kernel \in NextSamples(first, r.last_kernel_time),
           user \in NextSamples(first, r.last_user_time) :
            PerfUpdate("system", idle, kernel, user)

\* PerfMonitor::update_process_time: kernel and user of GetProcessTimes, idle 0
update_process_time ==
    LET r == perfMon.process
        first == r = PerfRecord_default
    IN  \E kernel \in NextSamples(first, r.last_kernel_time),
           user \in NextSamples(first, r.last_user_time) :
            PerfUpdate("process", 0, kernel, user)

\* no PerfMonitor is in use
PerfNone ==
    /\ perfMon = PerfMonitor_default
    /\ perfN = [system |-> 0, process |-> 0]
    /\ perfOut = NoOut
    /\ perfChecks = FALSE

\* ------------------------------------------------------------- specification
Init ==
    /\ libState = "None"
    /\ logInstalled = FALSE
    /\ guiHandle = FALSE
    /\ guiFlag = FALSE
    /\ guiTxAlive = FALSE
    /\ guiQ = <<>>
    /\ guiPc = "none"
    /\ isGuiEnabled = FALSE
    /\ cur = 0
    /\ nSpawned = 0
    /\ ws = [s \in Sessions |-> NoWorker]
    /\ hostPc = "idle"
    /\ ticks = 0
    /\ wall = 0
    /\ startTime = 0
    /\ simTime = 0
    /\ lastCall = Call("none", "ok", FALSE)
    /\ hostConfig \in Configs
    /\ gui = Gui_new
    /\ MonNone
    /\ PerfNone

WorkerStep(s) ==
    \/ \E fail \in {"none", "frames", "objects"} : WorkerOpen(s, fail)
    \/ \E k \in 0..4 : WorkerRecv(s, k)
    \/ \E k \in 0..2 : WorkerFinish(s, k)

Next ==
    \/ \E initOk \in BOOLEAN : Start(hostConfig, initOk)
    \/ \E paused \in BOOLEAN, input \in FrameInputs, dt \in SimSteps, dw \in WallSteps :
          OnFrameBegin(paused, input, dt, dw)
    \/ StopCall
    \/ StopJoin
    \/ \E s \in Sessions : WorkerStep(s)
    \/ GuiRecv
    \/ GuiHandleMessages
    \/ GuiClose
    \/ GuiCrash

Spec == Init /\ [][Next]_vars

\* the scheduler runs every thread that can take a step, and a join returns
FairSpec ==
    /\ Spec
    /\ \A s \in Sessions : WF_vars(WorkerStep(s))
    /\ WF_vars(StopJoin)

\* the pipeline before its first start, the default configuration loaded
PipeIdle ==
    /\ libState = "None"
    /\ logInstalled = FALSE
    /\ guiHandle = FALSE
    /\ guiFlag = FALSE
    /\ guiTxAlive = FALSE
    /\ guiQ = <<>>
    /\ guiPc = "none"
    /\ isGuiEnabled = FALSE
    /\ cur = 0
    /\ nSpawned = 0
    /\ ws = [s \in Sessions |-> NoWorker]
    /\ hostPc = "idle"
    /\ ticks = 0
    /\ wall = 0
    /\ startTime = 0
    /\ simTime = 0
    /\ lastCall = Call("none", "ok", FALSE)
    /\ hostConfig = DefaultConfig
    /\ gui = Gui_new

\* the state Monitor::new returns in: the thread spawned, the handle stored
MonInit ==
    /\ PipeIdle
    /\ PerfNone
    /\ monPc = "recv"
    /\ monQ = <<>>
    /\ monTxAlive = TRUE
    /\ monJoin = "some"
    /\ monCaller = "running"
    /\ imp = MonitorImpl_default
    /\ reports = <<>>
    /\ monStart \in MonStarts
    /\ monGame = 0
    /\ monSent = 0
    /\ monIdle = 0

MonNext ==
    \/ \E counts \in MonCounts, dt \in MonSteps : MonUpdate(counts, dt)
    \/ MonRecv
    \/ \E d \in IdleSteps : MonIdlePass(d)
    \/ MonStop
    \/ MonJoinBegin
    \/ MonJoinEnd
    \/ MonDrop

MonSpec == MonInit /\ [][MonNext]_vars

\* the monitor thread runs when it can, and a join returns when it can
MonFairSpec ==
    /\ MonSpec
    /\ WF_vars(MonRecv)
    /\ WF_vars(MonJoinEnd)

\* a PerfMonitor::default(), in either build
PerfInit ==
    /\ PipeIdle
    /\ MonNone
    /\ perfMon = PerfMonitor_default
    /\ perfN = [system |-> 0, process |-> 0]
    /\ perfOut = NoOut
    /\ perfChecks \in BOOLEAN

PerfNext ==
    \/ update_system_time
    \/ update_process_time

PerfSpec == PerfInit /\ [][PerfNext]_vars

\* ------------------------------------------------------------- properties
Updates(msgs) == SelectSeq(msgs, LAMBDA m : m.type = "Update")

\* every row written through a sink, in order
Rows(w) == w.file \o w.buf

FrameRows(s) == Rows(ws[s].logger.frame_writer)
ObjectRows(s) == Rows(ws[s].logger.object_writer)

\* C1: with the frame-timing log enabled, when the worker has handled Stop and
\* ended, the frame-timing file holds exactly one row per Update sent in the
\* session and none for Stop.
C1_FrameRowsEqualUpdates ==
    \A s \in Sessions :
        (ws[s].pc = "done" /\ ws[s].config.enable_framerate_log)
            => Len(ws[s].logger.frame_writer.file) = Len(Updates(ws[s].sent))

C1_Witness ==
    \E s \in Sessions :
        /\ ws[s].pc = "done"
        /\ ws[s].config.enable_framerate_log
        /\ Len(Updates(ws[s].sent)) = 2
        /\ Len(Updates(ws[s].sent)[2].units) = 0

\* C2: the frame number of each frame-timing row is one greater than the frame
\* number of the row before it.
C2_FrameNumbersIncreaseByOne ==
    \A s \in Sessions :
        \A i \in 1..(Len(FrameRows(s)) - 1) :
            FrameRows(s)[i + 1][1] = FrameRows(s)[i][1] + 1

\* C3: with the object log enabled, a handled Update appends exactly
\* |units| + |ballistics| rows to the object file (none for an empty frame).
C3_ObjectRowsPerUpdate ==
    [][\A s \in Sessions :
        (/\ ws[s].pc = "recv" /\ ws'[s].pc = "recv"
         /\ ws'[s].handled # ws[s].handled
         /\ ws[s].logger.object_writer.some)
        => LET msg == Head(ws[s].q)
           IN  Len(Rows(ws'[s].logger.object_writer))
                 = Len(ObjectRows(s)) + Len(msg.units) + Len(msg.ballistics)]_vars

C3_Witness ==
    \E s \in Sessions :
        /\ ws[s].pc = "recv"
        /\ ws[s].config.enable_object_log
        /\ Len(ws[s].handled) = 2
        /\ Len(ws[s].handled[1].units) + Len(ws[s].handled[1].ballistics) = 3
        /\ Len(ws[s].handled[2].units) + Len(ws[s].handled[2].ballistics) = 0
        /\ Len(ObjectRows(s)) = 3

\* a step that is an on_frame_begin call on a paused host
PausedCall ==
    /\ lastCall'.op = "on_frame_begin"
    /\ lastCall'.paused
    /\ (lastCall' # lastCall \/ ticks' # ticks)

\* C4: an on_frame_begin call on a paused host sends nothing to the worker or
\* the dashboard and leaves the session state, the Logger and the files as
\* they were.
C4_PausedTickChangesNothing ==
    [][PausedCall => UNCHANGED <<libVars, guiVars, ws, simTime, hostPc>>]_vars

C4_Witness ==
    /\ lastCall = Call("on_frame_begin", "ok", TRUE)
    /\ libState = "WorkerStarted"
    /\ Len(ws[cur].sent) = 1
    /\ ticks = 2

\* C5: when the worker thread has ended after Stop, every enabled sink's
\* compressed stream is finished, not merely flushed.
C5_SinksFinalizedAtExit ==
    \A s \in Sessions :
        ws[s].pc = "done" =>
            /\ ws[s].logger.frame_writer.some => ws[s].logger.frame_writer.state = "finished"
            /\ ws[s].logger.object_writer.some => ws[s].logger.object_writer.state = "finished"

\* a sink on which finish ran and nothing was written since
Finished(w) == w.some => (w.state = "flushed" /\ w.buf = <<>>)

StopReturns == hostPc = "stop_join" /\ hostPc' = "idle" /\ lastCall'.result = "ok"

\* C6: stop returns only after the worker thread has ended, having handled
\* every Update sent before stop and run finish on both writers; and a stop
\* that waits in join ends: it returns, or panics because the worker panicked.
C6_StopSynchronous ==
    /\ [][StopReturns =>
            /\ ws[cur].pc = "done"
            /\ ws[cur].handled = ws[cur].sent
            /\ Finished(ws[cur].logger.frame_writer)
            /\ Finished(ws[cur].logger.object_writer)]_vars
    /\ (hostPc = "stop_join") ~>
          (hostPc = "idle" /\ lastCall.op = "stop"
             /\ (lastCall.result = "ok" \/ \E s \in Sessions : ws[s].pc = "panicked"))

C6_Witness ==
    /\ lastCall = Call("stop", "ok", FALSE)
    /\ \E s \in Sessions :
        /\ ws[s].pc = "done"
        /\ Len(Updates(ws[s].handled)) = 2
        /\ ws[s].logger.frame_writer.some
        /\ ws[s].logger.object_writer.some

C8_SecondStopSucceeds ==
    [][(/\ lastCall = Call("stop", "ok", FALSE)
        /\ lastCall'.op = "stop"
        /\ lastCall' # lastCall)
       => (lastCall'.result # "panic" /\ C5_SinksFinalizedAtExit')]_vars

\* C9: the worker receives the messages of its channel in the order they were
\* sent, none lost, doubled or reordered in flight, and has handled every
\* Update sent once it has ended after Stop.
C9_FifoExactlyOnce ==
    \A s \in Sessions :
        /\ ws[s].sent = ws[s].handled \o ws[s].q
        /\ ws[s].pc = "done" => Updates(ws[s].handled) = Updates(ws[s].sent)

C9_Witness ==
    \E s \in Sessions :
        /\ ws[s].pc = "recv"
        /\ Len(ws[s].q) = 2
        /\ Len(ws[s].handled) = 1
        /\ ws[s].q[1] # ws[s].q[2]

\* C10: in an active session (with the dashboard handle present), a call of
\* on_frame_begin or stop made after the worker thread died does not fail.
C10_SendToDeadConsumerIsNoOp ==
    (/\ libState = "WorkerStarted"
     /\ guiHandle
     /\ ~RxAlive(ws[cur])
     /\ lastCall.op \in {"on_frame_begin", "stop"})
        => lastCall.result # "panic"

\* the thread panicked in create_csv_file: entry never built its Logger
\* although the configuration enables a sink
OpenFailed(w) ==
    /\ w.pc = "panicked"
    /\ \/ w.config.enable_framerate_log /\ ~w.logger.frame_writer.some
       \/ w.config.enable_object_log /\ ~w.logger.object_writer.some

\* C11: when an enabled sink cannot be created, start does not succeed and
\* the library is not in the session-started state with that dead worker.
C11_OpenFailureAbortsStart ==
    \A s \in Sessions :
        OpenFailed(ws[s]) => ~(libState = "WorkerStarted" /\ cur = s)

\* C12: handling an Update never ends the worker, whether or not its writes
\* succeed: the thread stays in its receive loop for the later messages.
C12_WriteFailureKeepsWorkerRunning ==
    [][\A s \in Sessions :
        (/\ ws[s].pc = "recv"
         /\ ws[s].q # <<>>
         /\ Head(ws[s].q).type = "Update"
         /\ ws'[s].handled # ws[s].handled)
        => ws'[s].pc = "recv"]_vars

\* a frame with an entity table that from_lua_with_id cannot read
Malformed(input) == ~(AllParse(input[1]) /\ AllParse(input[2]))

WellFormed(pairs) == SelectSeq(pairs, LAMBDA p : ObjectParses(p.value))

\* C13: on a frame with a malformed entity, on_frame_begin (session active,
\* worker alive, dashboard handle present) returns normally and sends an
\* Update that holds every well-formed entity of the frame.
C13_MalformedEntitySkipped ==
    [][\A input \in FrameInputs, dt \in SimSteps, dw \in WallSteps :
        (/\ Malformed(input)
         /\ libState = "WorkerStarted"
         /\ RxAlive(ws[cur])
         /\ guiHandle
         /\ OnFrameBegin(FALSE, input, dt, dw))
        => /\ lastCall'.result = "ok"
           /\ ws'[cur].sent =
                 Append(ws[cur].sent,
                        Update(get_unit_objects(WellFormed(input[1])),
                               get_ballistics_objects(WellFormed(input[2])),
                               simTime', wall' - startTime))]_vars

\* C14: in every configuration, a non-paused on_frame_begin call in an active
\* session (worker alive, every entity well-formed) returns normally and has
\* delivered its Update to the worker, with or without the dashboard.
C14_FrameTickReturnsNormally ==
    [][\A input \in FrameInputs, dt \in SimSteps, dw \in WallSteps :
        (/\ ~Malformed(input)
         /\ libState = "WorkerStarted"
         /\ RxAlive(ws[cur])
         /\ OnFrameBegin(FALSE, input, dt, dw))
        => /\ lastCall'.result = "ok"
           /\ Len(ws'[cur].sent) = Len(ws[cur].sent) + 1]_vars

\* the Logger after the given Updates when every write succeeds
RECURSIVE RunLogger(_, _)
RunLogger(l, msgs) ==
    IF msgs = <<>> THEN l
    ELSE LET m == Head(msgs)
         IN  RunLogger(handle_update(l, m.units, m.ballistics, m.game_time, m.real_time,
                                     NumWrites(l, m.units, m.ballistics)),
                       Tail(msgs))

\* the Logger of a worker with both sinks enabled after the given Updates
BothEnabled(msgs) == RunLogger(Logger_new(create_csv_file, create_csv_file), msgs)

Running(w) == w.pc \in {"recv", "finish", "done"}

C16_LeavesOpenOnlyOnStop ==
    \A s \in Sessions :
        (ws[s].pc \in {"finish", "done", "panicked"} /\ ~OpenFailed(ws[s]))
            => (/\ ws[s].handled # <<>>
                /\ ws[s].handled[Len(ws[s].handled)].type = "Stop")

\* C17: on every worker channel a Stop is the last message sent, and a
\* channel whose Sender is gone has carried exactly one Stop.
C17_ExactlyOneStopAndLast ==
    \A s \in Sessions :
        /\ \A i \in 1..Len(ws[s].sent) :
               ws[s].sent[i].type = "Stop" => i = Len(ws[s].sent)
        /\ (ws[s].pc # "unspawned" /\ ~ws[s].txAlive)
              => (/\ ws[s].sent # <<>>
                  /\ ws[s].sent[Len(ws[s].sent)].type = "Stop")

\* C18: when the frames sent so far span exactly the report threshold (the
\* last frame's simulation time is the first frame's plus 5.0 s) and the
\* monitor has handled them all, it has emitted exactly one report, computed
\* on the frame that reached the threshold over all the frames, and every
\* series of the window is empty again.
C18_OneReportAtThreshold ==
    (/\ monPc = "recv"
     /\ monSent >= 1
     /\ monQ = <<>>
     /\ monGame - monStart = ReportThreshold)
        => /\ Len(reports) = 1
           /\ reports[1].n = monSent
           /\ \A f \in Series : imp.frame_log[f] = <<>>

\* C19: when no frame has arrived for longer than the report interval, the
\* monitor emits a report of the no-data kind.
C19_NoDataReportWhenIdle ==
    (monPc = "recv" /\ monIdle > ReportThreshold)
        ~> (\E i \in 1..Len(reports) : reports[i].kind = "nodata")

\* C20: the monitor thread ends without emitting a report, and a join of the
\* handle Monitor::stop returned completes.
C20_StopEndsThread ==
    /\ [][(monPc = "recv" /\ monPc' = "done") => reports' = reports]_vars
    /\ (monCaller = "joining") ~> (monJoin = "joined")

\* C21: a frame triggers a report only when the simulation time since the
\* last report (for the first window: since the first frame) has reached the
\* 5 s threshold.
C21_ReportOnlyAfterSpan ==
    [][Len(reports') > Len(reports)
        => Head(monQ).game_time
             - (IF reports = <<>> THEN monStart ELSE imp.last_logged_time)
           >= ReportThreshold]_vars

\* C22: a report over frames is a warning exactly when some frame time of
\* its window exceeds the stall threshold, and informational otherwise.
C22_WarnOnStall ==
    \A i \in 1..Len(reports) :
        reports[i].kind = "frames"
            => (reports[i].lvl = "Warn" <=> reports[i].g_max > StallThreshold)

Abs(x) == IF x < 0 THEN -x ELSE x

\* the object row r was written for entity number j of Update m
RowOfUnit(r, m, j) ==
    /\ j \in 1..Len(m.units)
    /\ m.units[j] = [object |-> r[6], unit_name |-> r[4], group_name |-> r[5]]

RowOfBallistic(r, m, j) ==
    /\ j \in 1..Len(m.ballistics)
    /\ m.ballistics[j] = r[6]
    /\ r[4] = ""
    /\ r[5] = ""

C24_MissingNameBecomesNoName ==
    [][\A input \in FrameInputs, dt \in SimSteps, dw \in WallSteps :
        (/\ ~Malformed(input)
         /\ libState = "WorkerStarted"
         /\ RxAlive(ws[cur])
         /\ OnFrameBegin(FALSE, input, dt, dw))
        => LET m == ws'[cur].sent[Len(ws'[cur].sent)]
               tables == input[1]
           IN  /\ Len(ws'[cur].sent) = Len(ws[cur].sent) + 1
               /\ m.type = "Update"
               /\ Len(m.units) = Len(tables)
               /\ \A i \in 1..Len(tables) :
                     /\ m.units[i].object.id = tables[i].key
                     /\ m.units[i].unit_name =
                           IF "UnitName" \in DOMAIN tables[i].value
                           THEN tables[i].value.UnitName ELSE "NoName"
                     /\ m.units[i].group_name =
                           IF "GroupName" \in DOMAIN tables[i].value
                           THEN tables[i].value.GroupName ELSE "NoName"]_vars

C24_Witness ==
    \E s \in Sessions :
        /\ ws[s].handled # <<>>
        /\ ws[s].handled[1].type = "Update"
        /\ Len(ws[s].handled[1].units) = 2
        /\ ws[s].handled[1].units[1].unit_name = "Viper11"
        /\ ws[s].handled[1].units[2].unit_name = "NoName"
        /\ ws[s].handled[1].units[2].group_name = "NoName"
        /\ ws[s].handled[1].units[2].object.id = 2

\* C25: at most one worker thread is alive at a time, and the worker of an
\* active session keeps its channel.
C25_AtMostOneWorker ==
    /\ Cardinality({s \in Sessions : RxAlive(ws[s])}) <= 1
    /\ libState = "WorkerStarted" => ws[cur].txAlive

\* C26: an object row and the frame-timing row written for the same Update
\* carry the same frame number.
C26_FrameNumbersJoin ==
    \A s \in Sessions :
        LET ups == Updates(ws[s].handled)
        IN  \A k \in 1..Len(FrameRows(s)), i \in 1..Len(ObjectRows(s)) :
                ObjectRows(s)[i][2] = ups[k].game_time
                    => ObjectRows(s)[i][1] = FrameRows(s)[k][1]

\* a start call made in the not-running state that a stop left behind
Restart ==
    /\ libState = "GuiStarted"
    /\ lastCall'.op = "start"
    /\ nSpawned' = nSpawned + 1

\* C27: a stop that returns leaves the library in the not-running state
\* with the dashboard channel, its queue and its thread as they were; a start
\* made in that state creates a fresh worker with an empty channel and leaves
\* every earlier worker alone; a message is only ever sent to the worker of
\* the active session; and no Update of an earlier session is among the
\* Updates of a later one.
C27_SessionRestartable ==
    /\ [][StopReturns =>
            /\ libState' = "GuiStarted"
            /\ cur' = 0
            /\ guiTxAlive' = guiTxAlive
            /\ guiHandle' = guiHandle
            /\ guiQ' = guiQ
            /\ guiPc' = guiPc]_vars
    /\ [][Restart =>
            /\ libState' = "WorkerStarted"
            /\ cur' = nSpawned + 1
            /\ ws'[cur'].pc = "spawned"
            /\ ws'[cur'].txAlive
            /\ ws'[cur'].q = <<>>
            /\ ws'[cur'].sent = <<>>
            /\ ws'[cur'].handled = <<>>
            /\ ws'[cur'].logger = Logger_new(NoWriter, NoWriter)
            /\ guiTxAlive'
            /\ \A s \in Sessions \ {cur'} : ws'[s] = ws[s]]_vars
    /\ [][\A s \in Sessions :
            ws'[s].sent # ws[s].sent
                => /\ s = cur
                   /\ libState = "WorkerStarted"
                   /\ \E m \in {ws'[s].sent[Len(ws'[s].sent)]} :
                         /\ ws'[s].sent = Append(ws[s].sent, m)
                         /\ ws'[s].q = Append(ws[s].q, m)]_vars
    /\ [](\A s1, s2 \in Sessions :
            s1 < s2 =>
              \A i \in 1..Len(Updates(ws[s1].sent)), j \in 1..Len(Updates(ws[s2].sent)) :
                  Updates(ws[s1].sent)[i].game_time < Updates(ws[s2].sent)[j].game_time)

C27_Witness ==
    /\ nSpawned = 2
    /\ cur = 2
    /\ libState = "WorkerStarted"
    /\ hostConfig.enable_gui
    /\ guiTxAlive
    /\ guiPc = "shown"
    /\ ws[1].pc = "done"
    /\ Len(Updates(ws[1].handled)) = 1
    /\ Len(Updates(ws[2].handled)) = 1
    /\ ws[2].handled = ws[2].sent

\* the object rows (without the frame number) that the claimed order gives
\* for a sequence of Updates: per Update the units in snapshot order, then
\* the ballistic objects in snapshot order
RECURSIVE ExpectedObjectRows(_)
ExpectedObjectRows(ups) ==
    IF ups = <<>> THEN <<>>
    ELSE LET m == Head(ups)
         IN  [j \in 1..Len(m.units) |->
                 <<m.game_time, m.real_time, m.units[j].unit_name,
                   m.units[j].group_name, m.units[j].object>>]
             \o [j \in 1..Len(m.ballistics) |->
                 <<m.game_time, m.real_time, "", "", m.ballistics[j]>>]
             \o ExpectedObjectRows(Tail(ups))

\* C28: the object file holds, in this order, for each handled Update in
\* turn its units in snapshot order and then its ballistic objects in
\* snapshot order: a prefix of that sequence at any time, and all of it while
\* the worker is in its loop or has ended normally.
C28_ObjectRowsInOrder ==
    \A s \in Sessions :
        LET got == [i \in 1..Len(ObjectRows(s)) |-> SubSeq(ObjectRows(s)[i], 2, 6)]
            exp == ExpectedObjectRows(Updates(ws[s].handled))
        IN  /\ Len(got) <= Len(exp)
            /\ got = SubSeq(exp, 1, Len(got))
            /\ (Running(ws[s]) /\ ws[s].config.enable_object_log) => got = exp

C28_Witness ==
    \E s \in Sessions :
        /\ ws[s].pc = "done"
        /\ Len(ObjectRows(s)) = 6
        /\ ObjectRows(s)[1][4] = "Viper11"
        /\ ObjectRows(s)[2][4] = "NoName"
        /\ ObjectRows(s)[3][4] = ""
        /\ ObjectRows(s)[4][4] = "Viper11"
        /\ ObjectRows(s)[3][2] < ObjectRows(s)[4][2]

\* C29: while the dashboard window is open, its four history series have
\* the same length.
C29_GuiSeriesSameLength ==
    guiPc = "shown" =>
        /\ Len(gui.num_units) = Len(gui.real_times)
        /\ Len(gui.num_ballistics) = Len(gui.real_times)
        /\ Len(gui.game_times) = Len(gui.real_times)

\* C30: the eight series of the monitor's window have the same length in
\* every state; a handled frame either adds one entry to each series, or
\* (when it brings a report) the report is computed over the window with that
\* frame in it and every series is emptied; no report is computed over an
\* empty window.
C30_WindowSeriesSameLength ==
    /\ [](\A f, g \in Series : Len(imp.frame_log[f]) = Len(imp.frame_log[g]))
    /\ [][imp' # imp =>
            LET n == Len(imp.frame_log.game_times)
            IN  \/ /\ reports' = reports
                   /\ \A f \in Series : Len(imp'.frame_log[f]) = n + 1
                \/ /\ Len(reports') = Len(reports) + 1
                   /\ reports'[Len(reports')].kind = "frames"
                   /\ reports'[Len(reports')].n = n + 1
                   /\ \A f \in Series : imp'.frame_log[f] = <<>>]_vars
    /\ [](\A i \in 1..Len(reports) : reports[i].kind = "frames" /\ reports[i].n >= 1)

C30_Witness ==
    /\ Len(reports) = 1
    /\ reports[1].n = 2
    /\ \A f \in Series : Len(imp.frame_log[f]) = 2

\* C31: every update call returns total = kernel delta + user delta and
\* busy = total - idle delta, the true differences between the sample and
\* the sample before it (the zero record for the first call); total is not
\* negative.
C31_DeltasExact ==
    [][\A which \in {"system", "process"} :
        perfN'[which] # perfN[which] =>
            LET old == perfMon[which]
                new == perfMon'[which]
                di == new.last_idle_time - old.last_idle_time
                dk == new.last_kernel_time - old.last_kernel_time
                du == new.last_user_time - old.last_user_time
            IN  /\ perfOut'.status = "ok"
                /\ perfOut'.total = dk + du
                /\ perfOut'.busy = dk + du - di
                /\ perfOut'.total >= 0]_vars

====
